---- MODULE Spec2Model ----
(***************************************************************************)
(* QuipScript: one source language, four ways to run it.                   *)
(*                                                                         *)
(*   interpreter  src/jit.js 19-34         executes each line as it reads  *)
(*   jit          src/jit.js 1-18          builds JS text, then eval()s it *)
(*   compiler     src/compiler.js          builds JS text, writes output.js*)
(*   optimizer    src/unnamed/part_000     folds the string at compile     *)
(*                                         time, writes optimized-output.js*)
(*                                                                         *)
(* A source line is a sequence of one-character strings.  The generated    *)
(* JavaScript is kept statement by statement: every statement the scripts  *)
(* append is a fixed template around the raw source text, so a statement   *)
(* is the pair (template, raw text between the quotes).  What the text     *)
(* denotes once JavaScript reads it back is computed by JsLiteral.         *)
(***************************************************************************)
EXTENDS Naturals, Sequences, FiniteSets

VARIABLES script, lines, i, program, string, console, file, writes, pc, error

vars == <<script, lines, i, program, string, console, file, writes, pc, error>>

\* Longest program (number of lines of the .qs file) the model explores.
MaxLines == 3

Scripts == {"interpreter", "jit", "compiler", "optimizer"}

\* The lines a .qs file is made of here: the empty line, plain text, text
\* that starts with a blank, print lines with and without trailing text, an
\* invalid line, a comment, and text holding the two characters that are
\* special inside a single-quoted JavaScript literal.
SourceLines ==
  { <<>>, <<"a">>, <<" ", "p">>, <<"p">>, <<"p", "#">>, <<"t", "a">>,
    <<"#", "p">>, <<"'">>, <<"\\">>, <<"\\", "t">> }

\* sourceCode.split("\r\n") never returns an empty array.
Programs == UNION { [1..n -> SourceLines] : n \in 1..MaxLines }

----------------------------------------------------------------------------
(* Values shared by the scripts *)

\* Variant of At0: the first character after leading blanks (line.trim()[0]).
RECURSIVE At0Trimmed(_)
At0Trimmed(line) ==
  IF Len(line) = 0 THEN "undefined"
  ELSE IF line[1] = " " THEN At0Trimmed(Tail(line))
  ELSE line[1]

\* line[0]: the first character, undefined for the empty line.
At0(line) == IF Len(line) = 0 THEN "undefined" ELSE line[1]

NoError == [name |-> "none", message |-> ""]

\* new Error("ERROR I AM AN INVALID LINE")
InvalidLineError == [name |-> "Error", message |-> "ERROR I AM AN INVALID LINE"]

\* What the JavaScript parser throws on a malformed program text.
JsSyntaxError == [name |-> "SyntaxError", message |-> ""]

\* 'let string = ""\n'
LetString == [op |-> "let", text |-> <<>>]

\* "console.log(string)\n"
LogString == [op |-> "log", text |-> <<>>]

\* `string += '${line}'\n`
AppendText(line) == [op |-> "append", text |-> line]

\* `console.log('${string}')\n`
LogText(s) == [op |-> "logtext", text |-> s]

----------------------------------------------------------------------------
(* The body of one forEach callback, per script.  Each returns the values  *)
(* the callback leaves behind and what it threw.                           *)

\* Variant of InterpreterLine without the "t" branch: an invalid line is
\* appended like any other text.
InterpreterLineNoInvalidBranch(line, s, out) ==
  IF At0(line) = "p" THEN
    [string |-> s, console |-> Append(out, s), thrown |-> NoError]
  ELSE IF At0(line) = "#" THEN
    [string |-> s, console |-> out, thrown |-> NoError]
  ELSE
    [string |-> s \o line, console |-> out, thrown |-> NoError]

\* src/jit.js 25-34
InterpreterLine(line, s, out) ==
  IF At0(line) = "p" THEN
    [string |-> s, console |-> Append(out, s), thrown |-> NoError]
  ELSE IF At0(line) = "t" THEN
    [string |-> s, console |-> out, thrown |-> InvalidLineError]
  ELSE IF At0(line) = "#" THEN
    [string |-> s, console |-> out, thrown |-> NoError]
  ELSE
    [string |-> s \o line, console |-> out, thrown |-> NoError]

\* Variant of JitLine without the "t" branch.
JitLineNoInvalidBranch(line, prog) ==
  IF At0(line) = "p" THEN
    [program |-> Append(prog, LogString), thrown |-> NoError]
  ELSE IF At0(line) = "#" THEN
    [program |-> prog, thrown |-> NoError]
  ELSE
    [program |-> Append(prog, AppendText(line)), thrown |-> NoError]

\* src/jit.js 7-16
JitLine(line, prog) ==
  IF At0(line) = "p" THEN
    [program |-> Append(prog, LogString), thrown |-> NoError]
  ELSE IF At0(line) = "t" THEN
    [program |-> prog, thrown |-> InvalidLineError]
  ELSE IF At0(line) = "#" THEN
    [program |-> prog, thrown |-> NoError]
  ELSE
    [program |-> Append(prog, AppendText(line)), thrown |-> NoError]

\* Variant of CompilerLine without the "#" branch: a comment is translated
\* like text.
CompilerLineNoCommentBranch(line, prog) ==
  IF At0(line) = "p" THEN
    [program |-> Append(prog, LogString), thrown |-> NoError]
  ELSE IF At0(line) = "t" THEN
    [program |-> prog, thrown |-> InvalidLineError]
  ELSE
    [program |-> Append(prog, AppendText(line)), thrown |-> NoError]

\* src/compiler.js 7-16
CompilerLine(line, prog) ==
  IF At0(line) = "p" THEN
    [program |-> Append(prog, LogString), thrown |-> NoError]
  ELSE IF At0(line) = "t" THEN
    [program |-> prog, thrown |-> InvalidLineError]
  ELSE IF At0(line) = "#" THEN
    [program |-> prog, thrown |-> NoError]
  ELSE
    [program |-> Append(prog, AppendText(line)), thrown |-> NoError]

\* Variant of OptimizerLine that folds the text and also emits the append.
OptimizerLineUnfolded(line, prog, s) ==
  IF At0(line) = "p" THEN
    [program |-> Append(prog, LogText(s)), string |-> s, thrown |-> NoError]
  ELSE IF At0(line) = "t" THEN
    [program |-> prog, string |-> s, thrown |-> InvalidLineError]
  ELSE IF At0(line) = "#" THEN
    [program |-> prog, string |-> s, thrown |-> NoError]
  ELSE
    [program |-> Append(prog, AppendText(line)), string |-> s \o line,
     thrown |-> NoError]

\* Variant of OptimizerLine whose emitted statement aliases the string: text
\* appended later shows up in the statement emitted last.
OptimizerLineAliased(line, prog, s) ==
  IF At0(line) = "p" THEN
    [program |-> Append(prog, LogText(s)), string |-> s, thrown |-> NoError]
  ELSE IF At0(line) = "t" THEN
    [program |-> prog, string |-> s, thrown |-> InvalidLineError]
  ELSE IF At0(line) = "#" THEN
    [program |-> prog, string |-> s, thrown |-> NoError]
  ELSE
    [program |-> IF Len(prog) = 0 THEN prog
                 ELSE [prog EXCEPT ![Len(prog)] = LogText(s \o line)],
     string |-> s \o line, thrown |-> NoError]

\* Variant of OptimizerLine that starts a fresh string after every print.
OptimizerLineResets(line, prog, s) ==
  IF At0(line) = "p" THEN
    [program |-> Append(prog, LogText(s)), string |-> <<>>, thrown |-> NoError]
  ELSE IF At0(line) = "t" THEN
    [program |-> prog, string |-> s, thrown |-> InvalidLineError]
  ELSE IF At0(line) = "#" THEN
    [program |-> prog, string |-> s, thrown |-> NoError]
  ELSE
    [program |-> prog, string |-> s \o line, thrown |-> NoError]

\* src/unnamed/part_000 8-17
OptimizerLine(line, prog, s) ==
  IF At0(line) = "p" THEN
    [program |-> Append(prog, LogText(s)), string |-> s, thrown |-> NoError]
  ELSE IF At0(line) = "t" THEN
    [program |-> prog, string |-> s, thrown |-> InvalidLineError]
  ELSE IF At0(line) = "#" THEN
    [program |-> prog, string |-> s, thrown |-> NoError]
  ELSE
    [program |-> prog, string |-> s \o line, thrown |-> NoError]

----------------------------------------------------------------------------
(* JavaScript reading the generated text back (eval, or node on the file) *)

\* The character a backslash escape denotes.  Of the characters that occur
\* in SourceLines only t names a control character; any other character
\* stands for itself.
EscapeChar(c) == IF c = "t" THEN "\t" ELSE c

\* The value of the single-quoted literal whose text between the quotes is
\* raw, as [ok, value].  An unescaped quote inside raw closes the literal
\* early, and a backslash at the very end escapes the closing quote: both
\* leave text no statement can continue with (over the characters of
\* SourceLines nothing that follows a closed literal is an operator), so the
\* whole program text is rejected.
RECURSIVE JsLiteral(_)
JsLiteral(raw) ==
  IF Len(raw) = 0 THEN [ok |-> TRUE, value |-> <<>>]
  ELSE IF raw[1] = "'" THEN [ok |-> FALSE, value |-> <<>>]
  ELSE IF raw[1] = "\\" THEN
    IF Len(raw) = 1 THEN [ok |-> FALSE, value |-> <<>>]
    ELSE LET rest == JsLiteral(SubSeq(raw, 3, Len(raw)))
         IN [ok |-> rest.ok, value |-> <<EscapeChar(raw[2])>> \o rest.value]
  ELSE LET rest == JsLiteral(Tail(raw))
       IN [ok |-> rest.ok, value |-> <<raw[1]>> \o rest.value]

\* The text parses: every literal in it is well formed.
JsParses(prog) == \A k \in 1..Len(prog) : JsLiteral(prog[k].text).ok

\* Statements k.. of prog run against the program's own string variable s.
RECURSIVE JsExec(_, _, _, _)
JsExec(prog, k, s, out) ==
  IF k > Len(prog) THEN out
  ELSE IF prog[k].op = "let" THEN JsExec(prog, k + 1, <<>>, out)
  ELSE IF prog[k].op = "append" THEN
    JsExec(prog, k + 1, s \o JsLiteral(prog[k].text).value, out)
  ELSE IF prog[k].op = "log" THEN JsExec(prog, k + 1, s, Append(out, s))
  ELSE JsExec(prog, k + 1, s, Append(out, JsLiteral(prog[k].text).value))

\* A program text is parsed whole before its first statement runs.
JsRun(prog) ==
  IF JsParses(prog) THEN [console |-> JsExec(prog, 1, <<>>, <<>>), thrown |-> NoError]
  ELSE [console |-> <<>>, thrown |-> JsSyntaxError]

----------------------------------------------------------------------------
(* The four scripts *)

Init ==
  /\ script \in Scripts
  /\ lines \in Programs
  /\ i = 0
  /\ program = IF script \in {"jit", "compiler"} THEN <<LetString>> ELSE <<>>
  /\ string = <<>>
  /\ console = <<>>
  /\ file = <<>>
  /\ writes = 0
  /\ pc = "forEach"
  /\ error = NoError

\* Where a script goes once forEach has visited every line.
AfterLoop(s) ==
  CASE s = "interpreter" -> "done"
    [] s = "jit" -> "eval"
    [] OTHER -> "write"

\* The bookkeeping common to one forEach iteration.
Advance(thrown) ==
  IF thrown = NoError
  THEN /\ i' = i + 1
       /\ pc' = IF i + 1 = Len(lines) THEN AfterLoop(script) ELSE "forEach"
       /\ error' = error
  ELSE /\ i' = i
       /\ pc' = "failed"
       /\ error' = thrown

InterpreterStep ==
  /\ script = "interpreter" /\ pc = "forEach" /\ i < Len(lines)
  /\ LET r == InterpreterLine(lines[i + 1], string, console)
     IN /\ string' = r.string
        /\ console' = r.console
        /\ Advance(r.thrown)
  /\ UNCHANGED <<script, lines, program, file, writes>>

JitStep ==
  /\ script = "jit" /\ pc = "forEach" /\ i < Len(lines)
  /\ LET r == JitLine(lines[i + 1], program)
     IN /\ program' = r.program
        /\ Advance(r.thrown)
  /\ UNCHANGED <<script, lines, string, console, file, writes>>

\* eval(program)
JitEval ==
  /\ script = "jit" /\ pc = "eval"
  /\ LET r == JsRun(program)
     IN /\ console' = console \o r.console
        /\ error' = r.thrown
        /\ pc' = IF r.thrown = NoError THEN "done" ELSE "failed"
  /\ UNCHANGED <<script, lines, i, program, string, file, writes>>

\* Variant of CompilerStep that saves the text built so far on every line.
CompilerStepStreaming ==
  /\ script = "compiler" /\ pc = "forEach" /\ i < Len(lines)
  /\ LET r == CompilerLine(lines[i + 1], program)
     IN /\ program' = r.program
        /\ file' = r.program
        /\ writes' = writes + 1
        /\ Advance(r.thrown)
  /\ UNCHANGED <<script, lines, string, console>>

CompilerStep ==
  /\ script = "compiler" /\ pc = "forEach" /\ i < Len(lines)
  /\ LET r == CompilerLine(lines[i + 1], program)
     IN /\ program' = r.program
        /\ Advance(r.thrown)
  /\ UNCHANGED <<script, lines, string, console, file, writes>>

\* writeFileSync('./output.js', program)
CompilerWrite ==
  /\ script = "compiler" /\ pc = "write"
  /\ file' = program
  /\ writes' = writes + 1
  /\ pc' = "written"
  /\ UNCHANGED <<script, lines, i, program, string, console, error>>

OptimizerStep ==
  /\ script = "optimizer" /\ pc = "forEach" /\ i < Len(lines)
  /\ LET r == OptimizerLine(lines[i + 1], program, string)
     IN /\ program' = r.program
        /\ string' = r.string
        /\ Advance(r.thrown)
  /\ UNCHANGED <<script, lines, console, file, writes>>

\* writeFileSync("./optimized-output.js", program)
OptimizerWrite ==
  /\ script = "optimizer" /\ pc = "write"
  /\ file' = program
  /\ writes' = writes + 1
  /\ pc' = "written"
  /\ UNCHANGED <<script, lines, i, program, string, console, error>>

\* The saved file executed later (node output.js).
RunOutput ==
  /\ script \in {"compiler", "optimizer"} /\ pc = "written"
  /\ LET r == JsRun(file)
     IN /\ console' = console \o r.console
        /\ error' = r.thrown
        /\ pc' = IF r.thrown = NoError THEN "done" ELSE "failed"
  /\ UNCHANGED <<script, lines, i, program, string, file, writes>>

Next ==
  \/ InterpreterStep
  \/ JitStep
  \/ JitEval
  \/ CompilerStep
  \/ CompilerWrite
  \/ OptimizerStep
  \/ OptimizerWrite
  \/ RunOutput

Spec == Init /\ [][Next]_vars

\* The interpreter as a function of the program: what it has printed when it
\* stops, on the last line or on the first invalid one.
RECURSIVE InterpreterRun(_, _, _)
InterpreterRun(ls, s, out) ==
  IF Len(ls) = 0 THEN out
  ELSE LET r == InterpreterLine(ls[1], s, out)
       IN IF r.thrown = NoError
          THEN InterpreterRun(Tail(ls), r.string, r.console)
          ELSE r.console

----------------------------------------------------------------------------
(* Vocabulary of the properties: statement kinds as the language defines   *)
(* them, and what a program is expected to print.                          *)

IsComment(l) == Len(l) > 0 /\ l[1] = "#"
IsPrint(l) == Len(l) > 0 /\ l[1] = "p"
IsInvalid(l) == Len(l) > 0 /\ l[1] = "t"
IsEmit(l) == ~IsComment(l) /\ ~IsPrint(l) /\ ~IsInvalid(l)

HasInvalid(ls) == \E k \in 1..Len(ls) : IsInvalid(ls[k])

\* 1-based line number of the first Invalid statement.
FirstInvalid(ls) ==
  CHOOSE k \in 1..Len(ls) :
    IsInvalid(ls[k]) /\ \A j \in 1..(k - 1) : ~IsInvalid(ls[j])

PrintSites(ls) == {k \in 1..Len(ls) : IsPrint(ls[k])}
EmitSites(ls) == {k \in 1..Len(ls) : IsEmit(ls[k])}
StatementSites(ls) == {k \in 1..Len(ls) : ~IsComment(ls[k])}

\* The n-th smallest element of a set of line numbers.
Nth(S, n) == CHOOSE k \in S : Cardinality({j \in S : j <= k}) = n

\* The payloads of the Emit statements of ls, concatenated in source order.
RECURSIVE Payloads(_)
Payloads(ls) ==
  IF Len(ls) = 0 THEN <<>>
  ELSE (IF IsEmit(ls[1]) THEN ls[1] ELSE <<>>) \o Payloads(Tail(ls))

\* What the n-th Print statement of ls has to show.
TextAtPrint(ls, n) == Payloads(SubSeq(ls, 1, Nth(PrintSites(ls), n) - 1))

\* One string per Print statement of ls.
ExpectedPrints(ls) ==
  [n \in 1..Cardinality(PrintSites(ls)) |-> TextAtPrint(ls, n)]

IsPrefix(a, b) == Len(a) <= Len(b) /\ SubSeq(b, 1, Len(a)) = a

Finished == pc \in {"done", "failed"}

----------------------------------------------------------------------------
(* C1 *)

\* C1: for every program without an Invalid statement, a finished run of any
\* of the four strategies (the interpreter, eval of the JIT's text, the saved
\* compiler output executed, the saved optimized output executed) has printed
\* exactly the strings the interpreter prints for that program.
CrossStrategyEquivalence ==
  (Finished /\ ~HasInvalid(lines)) => console = InterpreterRun(lines, <<>>, <<>>)

----------------------------------------------------------------------------
(* C2 *)

\* C2: when the first Invalid statement is at line L, the interpreter has at
\* every moment printed exactly one string per Print among the lines it has
\* executed, each the concatenation of the Emit payloads before that Print;
\* it never executes line L or any later line, never completes, and when it
\* fails it has executed exactly the L-1 lines before L.
InterpreterPartialProgress ==
  (script = "interpreter" /\ HasInvalid(lines)) =>
    /\ i < FirstInvalid(lines)
    /\ console = ExpectedPrints(SubSeq(lines, 1, i))
    /\ pc \in {"forEach", "failed"}
    /\ pc = "failed" =>
         /\ i = FirstInvalid(lines) - 1
         /\ error = InvalidLineError
         /\ console = ExpectedPrints(SubSeq(lines, 1, FirstInvalid(lines) - 1))

\* The interpreter failed after printing, with a Print left unexecuted behind
\* the Invalid line.
InterpreterFailedAfterOutput ==
  /\ script = "interpreter" /\ pc = "failed"
  /\ Len(console) > 0
  /\ \E k \in (i + 2)..Len(lines) : IsPrint(lines[k])

----------------------------------------------------------------------------
(* C3 *)

\* C3: a JIT run of a program that holds an Invalid statement anywhere prints
\* nothing, and never reaches eval: the compile loop fails first.
JitAllOrNothing ==
  (script = "jit" /\ HasInvalid(lines)) =>
    /\ console = <<>>
    /\ pc \in {"forEach", "failed"}
    /\ pc = "failed" => error = InvalidLineError

\* The JIT failed on an Invalid line that a Print precedes.
JitFailedBehindPrint ==
  /\ script = "jit" /\ pc = "failed" /\ error = InvalidLineError
  /\ \E k \in 1..i : IsPrint(lines[k])

----------------------------------------------------------------------------
(* C4 *)

\* C4: for both compilers the output file is never written when the program
\* holds an Invalid statement; a written file holds the text of the whole
\* program, written after the last line was processed, and a compilation
\* that got through writes it exactly once.
AotNoPartialArtifact ==
  script \in {"compiler", "optimizer"} =>
    /\ HasInvalid(lines) => (writes = 0 /\ file = <<>>)
    /\ writes > 0 => (i = Len(lines) /\ file = program /\ ~HasInvalid(lines))
    /\ writes <= 1
    /\ (pc = "written" \/ pc = "done" \/ error = JsSyntaxError) => writes = 1
    /\ pc \in {"forEach", "write"} => writes = 0

\* A compiler failed on an Invalid line after it had already translated
\* statements, and left no file.
AotFailedWithWorkDone ==
  /\ script \in {"compiler", "optimizer"}
  /\ pc = "failed" /\ error = InvalidLineError
  /\ i > 0 /\ program # <<>>
  /\ writes = 0

----------------------------------------------------------------------------
(* C5 *)

\* C5: the optimizing compiler's program holds one statement per Print
\* statement processed, each a print of a literal; Emit and Comment add none,
\* so the written file has as many statements as the program has Prints.
OptimizedOneStatementPerPrint ==
  script = "optimizer" =>
    /\ Len(program) = Cardinality(PrintSites(SubSeq(lines, 1, i)))
    /\ \A k \in 1..Len(program) : program[k].op = "logtext"
    /\ writes = 1 =>
         /\ Len(file) = Cardinality(PrintSites(lines))
         /\ \A k \in 1..Len(file) : file[k].op = "logtext"

\* An optimized file written for a program with an Emit, a Comment and a
\* Print.
OptimizedWrittenMixed ==
  /\ script = "optimizer" /\ writes = 1
  /\ PrintSites(lines) # {}
  /\ EmitSites(lines) # {}
  /\ \E k \in 1..Len(lines) : IsComment(lines[k])

----------------------------------------------------------------------------
(* C6 *)

\* The Emit payloads up to the last Print statement of ls.
LiveText(ls) ==
  IF PrintSites(ls) = {} THEN <<>>
  ELSE Payloads(SubSeq(ls, 1, Nth(PrintSites(ls), Cardinality(PrintSites(ls)))))

\* C6: every literal of the written optimized file is a prefix of the text
\* emitted up to the last Print, so no payload emitted after the last Print
\* reaches the file; a program without a Print yields an empty file.
DeadCodeEliminated ==
  (script = "optimizer" /\ writes = 1) =>
    /\ \A k \in 1..Len(file) : IsPrefix(file[k].text, LiveText(lines))
    /\ PrintSites(lines) = {} => file = <<>>

\* An optimized file written for a program whose last statement is a
\* non-empty Emit behind a Print.
OptimizedWrittenWithDeadEmit ==
  /\ script = "optimizer" /\ writes = 1
  /\ PrintSites(lines) # {}
  /\ IsEmit(lines[Len(lines)]) /\ lines[Len(lines)] # <<>>

----------------------------------------------------------------------------
(* C7 *)

\* C7: whenever a strategy fails on an Invalid statement, the error it
\* reports carries the 1-based source line number of the first Invalid
\* statement.
ErrorReportsSourceLine ==
  (pc = "failed" /\ error.name = "Error") =>
    /\ "sourceLine" \in DOMAIN error
    /\ error.sourceLine = FirstInvalid(lines)

----------------------------------------------------------------------------
(* C8 *)

\* C8: at every point of the optimizing compilation the n-th statement is the
\* print of the concatenation of the Emit payloads before the n-th Print (so
\* later lines leave it as it was emitted), each literal is a prefix of the
\* next, and the written file is that list for the whole program.
SnapshotFolding ==
  script = "optimizer" =>
    /\ program = [n \in 1..Cardinality(PrintSites(SubSeq(lines, 1, i))) |->
                    LogText(TextAtPrint(lines, n))]
    /\ \A n \in 1..(Len(program) - 1) :
         IsPrefix(program[n].text, program[n + 1].text)
    /\ writes = 1 =>
         file = [n \in 1..Cardinality(PrintSites(lines)) |->
                   LogText(TextAtPrint(lines, n))]

\* An optimized file with two prints of different text, the first of them
\* emitted before the Emit that separates them.
OptimizedWrittenGrowing ==
  /\ script = "optimizer" /\ writes = 1
  /\ Len(file) = 2
  /\ file[1].text # file[2].text

----------------------------------------------------------------------------
(* C9 *)

\* The translation of the non-Comment statements of ls, one for one.
Translation(ls) ==
  [n \in 1..Cardinality(StatementSites(ls)) |->
     IF IsPrint(ls[Nth(StatementSites(ls), n)])
     THEN LogString
     ELSE AppendText(ls[Nth(StatementSites(ls), n)])]

\* C9: the file the non-optimizing compiler writes is the declaration of the
\* string followed, in source order, by one append of the payload per Emit
\* and one print of the string per Print, with nothing for a Comment.
OneToOneTranslation ==
  script = "compiler" =>
    /\ program = <<LetString>> \o Translation(SubSeq(lines, 1, i))
    /\ writes = 1 =>
         /\ file = <<LetString>> \o Translation(lines)
         /\ Len(file) = 1 + Cardinality(StatementSites(lines))

\* A compiled file for a program with a Comment, an Emit and a Print.
CompiledWrittenMixed ==
  /\ script = "compiler" /\ writes = 1
  /\ PrintSites(lines) # {}
  /\ EmitSites(lines) # {}
  /\ \E k \in 1..Len(lines) : IsComment(lines[k])

----------------------------------------------------------------------------
(* C10 *)

\* What one forEach iteration on line l has to do, by the kind of l.
LineEffect(l) ==
  /\ IsInvalid(l) =>
       /\ pc' = "failed" /\ error' = InvalidLineError
       /\ UNCHANGED <<i, string, program, console>>
  /\ ~IsInvalid(l) => (pc' # "failed" /\ i' = i + 1 /\ error' = error)
  /\ IsComment(l) => UNCHANGED <<string, program, console>>
  /\ IsPrint(l) =>
       /\ string' = string
       /\ script = "interpreter" =>
            (console' = Append(console, string) /\ program' = program)
       /\ script \in {"jit", "compiler"} =>
            (program' = Append(program, LogString) /\ console' = console)
       /\ script = "optimizer" =>
            (program' = Append(program, LogText(string)) /\ console' = console)
  /\ IsEmit(l) =>
       /\ console' = console
       /\ script = "interpreter" => (string' = string \o l /\ program' = program)
       /\ script \in {"jit", "compiler"} =>
            (program' = Append(program, AppendText(l)) /\ string' = string)
       /\ script = "optimizer" => (string' = string \o l /\ program' = program)
  /\ l = <<>> => (pc' # "failed" /\ string' = string)
  /\ UNCHANGED <<file, writes>>

\* C10: in all four scripts a line is handled by its first character alone:
\* '#' changes nothing, 'p' prints, 't' fails, and any other line, the empty
\* line and a line starting with a blank included, is an Emit of the whole
\* line; the empty line leaves the string as it is and does not fail.
ClassificationByFirstChar ==
  [][pc = "forEach" => LineEffect(lines[i + 1])]_vars

\* The interpreter has taken an empty line and a line starting with a blank
\* as Emits.
BlankLedLineEmitted ==
  /\ script = "interpreter" /\ i >= 2
  /\ lines[1] = <<>> /\ lines[2] = <<" ", "p">>
  /\ string = <<" ", "p">>

====
